---- MODULE Spec2Model ----
(***************************************************************************)
(* Regulatory attribution engine of the eCFR analyzer (src/app.py):        *)
(* retrieval with retry / skip / memoization, the ownership index, the     *)
(* proportional attribution and the three analysis products, with the     *)
(* Streamlit session state as the only store.                              *)
(*                                                                         *)
(* Conventions.  An optional value is a sequence of length 0 or 1: <<>>    *)
(* is Python's None (or "key not in st.session_state"), <<v>> is v.        *)
(* Text is a sequence of one-character strings.  A date "YYYY-MM-DD" is    *)
(* the triple <<y, m, d>>.  throttle_delay is counted in tenths of a       *)
(* second.  Attributed word counts are exact fractions, kept as integers   *)
(* in units of 1/Scale of a word.                                          *)
(***************************************************************************)
EXTENDS Integers, Sequences, FiniteSets, TLC

VARIABLES
    ss,     \* st.session_state of the session under study
    cfg,    \* the module globals set from the sidebar widgets
    call,   \* the retrieval call in progress or last completed
    net,    \* what the Content Store answers (the upstream)
    build,  \* what the installation provides (the markup parser)
    last,   \* observation of the last script run
    twin,   \* a second session fed the same requests with caching off
    keyreq  \* a pair of requests whose cache keys are compared

vars == <<ss, cfg, call, net, build, last, twin, keyreq>>

----------------------------------------------------------------------------
(* Bounds of the model *)

\* events (button presses, changes of the store) explored in one session
MaxRuns == 2
\* direct calls of the retrieval functions explored in one session
MaxCalls == 2
\* largest value given to the max_retries argument of get_title_content
MaxRetries == 2
\* most pieces (words, blanks, empty elements) in a document given to the
\* word counter
MaxTokens == 3

----------------------------------------------------------------------------
(* Generic helpers *)

\* the value v under a name for the rest of a computation; v is evaluated
\* before the rest is, as a statement is before the next
With(v, Rest(_)) == CHOOSE out \in {Rest(r) : r \in {v}} : TRUE

None == <<>>
Some(v) == <<v>>
IsSome(o) == Len(o) > 0
Get(o) == o[1]

Range(s) == {s[i] : i \in DOMAIN s}

Min(a, b) == IF a <= b THEN a ELSE b

RECURSIVE SeqSum(_)
SeqSum(s) == IF Len(s) = 0 THEN 0 ELSE Head(s) + SeqSum(Tail(s))

RECURSIVE SetSum(_, _)
SetSum(S, f) ==
    IF S = {} THEN 0
    ELSE LET x == CHOOSE y \in S : TRUE IN f[x] + SetSum(S \ {x}, f)

\* datetime.strptime(a, "%Y-%m-%d") < datetime.strptime(b, "%Y-%m-%d")
DateLT(a, b) ==
    \/ a[1] < b[1]
    \/ a[1] = b[1] /\ a[2] < b[2]
    \/ a[1] = b[1] /\ a[2] = b[2] /\ a[3] < b[3]

----------------------------------------------------------------------------
(* Program constants *)

\* default of the max_retries parameter
DefaultMaxRetries == 1
\* the titles get_title_content refuses to fetch when the option is on
ProblemTitles == {7, 10, 40, 42, 45}
\* the titles the option's help text announces
AnnouncedTitles == {7, 12, 20, 21, 31, 40, 42, 46, 47, 48, 49, 50}
\* defaults of the sidebar: timeout in seconds, delay in tenths of a second
DefaultTimeout == 240
DefaultThrottle == 2

----------------------------------------------------------------------------
(* The Content Store: the catalog the model uses *)

NameA  == <<"A">>
NameAB == <<"A", " ", "B">>
NameC  == <<"C">>
NameD  == <<"D">>

Agency(name, slug, refs, kids) ==
    [name |-> name, slug |-> slug,
     cfr_references |-> [i \in DOMAIN refs |-> [title |-> refs[i]]],
     children |-> kids]

AgencyC  == Agency(NameC, "c", <<5>>, <<>>)
AgencyAB == Agency(NameAB, "a-b", <<7>>, <<AgencyC>>)
AgencyA  == Agency(NameA, "a", <<1, 7>>, <<AgencyAB>>)
AgencyD  == Agency(NameD, "d", <<1, 3, 7>>, <<>>)

\* the "agencies" payload of agencies.json, and a later revision of it
Catalog1 == <<AgencyA, AgencyD>>
Catalog2 == <<AgencyD>>
AgencyCatalogs == {Catalog1, Catalog2}

Title(n, latest, reserved) ==
    [number |-> n, latest_amended_on |-> latest, reserved |-> reserved]

\* the "titles" payload of titles.json: 3 is reserved, 7 is on the skip list,
\* 5 is referenced by no top-level agency and by no child of one
TitleList1 == << Title(1, <<2023, 6, 1>>, FALSE), Title(3, <<2024, 6, 1>>, TRUE),
                 Title(5, <<2025, 6, 1>>, FALSE), Title(7, <<2024, 6, 1>>, FALSE) >>
TitleList2 == << Title(1, <<2023, 6, 1>>, FALSE) >>
TitleLists == {TitleList1, TitleList2}

TitleNums == {TitleList1[i].number : i \in DOMAIN TitleList1}

TargetDates == {<<2024, 1, 1>>, <<2025, 1, 1>>}
Years == {2024, 2025}

\* the text of title n as of a date, and a revision of it
Body(n, date) ==
    CASE n = 1 -> <<"<", "a", ">", "h", "i", " ", "y", "o", " ", "x", "<", "/", "a", ">">>
      [] n = 5 -> IF date[1] <= 2024 THEN <<"<", "a", ">", "u", "<", "/", "a", ">">>
                  ELSE <<"<", "a", ">", "u", " ", "v", "<", "/", "a", ">">>
      [] OTHER -> <<"<", "a", ">", "p", "<", "b", "/", ">", "q", " ", "r", "<", "/", "a", ">">>
\* a document without a word in it
Blank == <<"<", "a", "/", ">">>
Revised(n, date) == <<"<", "a", ">", "n", "e", "w", "<", "/", "a", ">">>

\* One answer of the Content Store to one request: an HTTP status with its
\* payload, or the exception requests.get raises instead.
Http(status, payload) == [raises |-> "none", status |-> status, payload |-> payload]
Raised(what) == [raises |-> what, status |-> 0, payload |-> <<>>]

\* every answer a request for title n at a date is tried against
ContentAnswers(n, date) ==
    {Http(200, Body(n, date)), Http(200, Revised(n, date)), Http(200, <<>>),
     Http(504, <<>>), Http(404, <<>>), Http(500, <<>>),
     Raised("Timeout"), Raised("Exception")}

ListAnswers(payloads) ==
    {Http(200, p) : p \in payloads}
        \cup {Http(500, <<>>), Raised("Timeout"), Raised("Exception")}

----------------------------------------------------------------------------
(* st.session_state *)

\* a fresh session: no key is present
EmptySession ==
    [agencies_cache |-> None,      \* "agencies_cache"
     titles_cache |-> None,        \* "titles_cache"
     content |-> <<>>,             \* "title_content_{n}_{date}", by <<n, date>>
     agencies |-> None,            \* .agencies
     titles_info |-> None,         \* .titles_info
     shown |-> None,               \* the snapshot results the other tabs read
     shown_series |-> None,        \* .word_counts_by_year and .time_df
     keys |-> {},                  \* the request cache keys stored as themselves
     stored |-> <<>>]              \* "{cache_key}_..." entries, by cache key

Globals(cache, skip, maxt, date, timeout, throttle) ==
    [cache_results |-> cache, skip_problematic_titles |-> skip,
     max_titles |-> maxt, target_date |-> date,
     request_timeout |-> timeout, throttle_delay |-> throttle]

Put(f, k, v) == (k :> v) @@ f

\* "st.session_state[cache_key] = content"
Cache_nothing(store, key, content) == Put(store, key, <<>>)
Cache(store, key, content) == Put(store, key, content)

----------------------------------------------------------------------------
(* Retrieval layer *)

\* What a retrieval function hands back: its return value, the session state
\* it leaves, and what it did on the way (requests, pauses, messages).
Request == [ev |-> "request", dur |-> 0]
Sleep(dur) == [ev |-> "sleep", dur |-> dur]
Notice(level) == [ev |-> level, dur |-> 0]

Kind(resp) ==
    IF resp.raises # "none" THEN resp.raises
    ELSE CASE resp.status = 200 -> "200"
           [] resp.status = 504 -> "504"
           [] resp.status = 404 -> "404"
           [] OTHER -> "other"

\* "not force_refresh and cache_results and cache_key in st.session_state"
CacheHit_ignoring_force(force_refresh, g, present) == g.cache_results /\ present
CacheHit(force_refresh, g, present) == ~force_refresh /\ g.cache_results /\ present

\* "skip_problematic_titles and title_number in [7, 10, 40, 42, 45]"
Skipped(g, n) == g.skip_problematic_titles /\ n \in ProblemTitles

\* status 504 and requests.exceptions.Timeout take the retry branch
IsTransient_with_404(resp) ==
    \/ resp.raises = "none" /\ resp.status \in {504, 404}
    \/ resp.raises = "Timeout"
IsTransient(resp) ==
    \/ resp.raises = "none" /\ resp.status = 504
    \/ resp.raises = "Timeout"

\* "if retries <= max_retries" after "retries += 1"
MayRetry_once_more(retried, max_retries) == retried <= max_retries + 1
MayRetry(retried, max_retries) == retried <= max_retries

\* "time.sleep(throttle_delay * 2)"
Backoff(g) == g.throttle_delay * 2

\* get_agencies(force_refresh) against one answer of the store
get_agencies(s, g, force_refresh, resp) ==
    IF CacheHit(force_refresh, g, IsSome(s.agencies_cache))
    THEN [ret |-> Get(s.agencies_cache), ss |-> s, trace |-> <<>>]
    ELSE IF resp.raises = "none" /\ resp.status = 200
    THEN [ret |-> resp.payload,
          ss |-> IF g.cache_results
                 THEN [s EXCEPT !.agencies_cache = Some(resp.payload)] ELSE s,
          trace |-> <<Request>>]
    ELSE [ret |-> <<>>, ss |-> s,
          trace |-> <<Request, Notice("error")>>]

\* get_titles(force_refresh) against one answer of the store
get_titles(s, g, force_refresh, resp) ==
    IF CacheHit(force_refresh, g, IsSome(s.titles_cache))
    THEN [ret |-> Get(s.titles_cache), ss |-> s, trace |-> <<>>]
    ELSE IF resp.raises = "none" /\ resp.status = 200
    THEN [ret |-> resp.payload,
          ss |-> IF g.cache_results
                 THEN [s EXCEPT !.titles_cache = Some(resp.payload)] ELSE s,
          trace |-> <<Request>>]
    ELSE [ret |-> <<>>, ss |-> s,
          trace |-> <<Request, Notice("error")>>]

\* A call of get_title_content: its arguments, where it stands and what it
\* has done so far.
Frame(n, date, max_retries, force_refresh, pc, ret, trace) ==
    [fn |-> "get_title_content", n |-> n, date |-> date,
     max_retries |-> max_retries, force_refresh |-> force_refresh,
     pc |-> pc, retries |-> 0, ret |-> ret, trace |-> trace, answer |-> ""]

\* get_title_content up to its loop: the cache lookup, then the skip list
content_begin(s, g, n, date, max_retries, force_refresh) ==
    IF CacheHit(force_refresh, g, <<n, date>> \in DOMAIN s.content)
    THEN Frame(n, date, max_retries, force_refresh, "done",
               Some(s.content[<<n, date>>]), <<>>)
    ELSE IF Skipped(g, n)
    THEN Frame(n, date, max_retries, force_refresh, "done", None,
               <<Notice("warning")>>)
    ELSE Frame(n, date, max_retries, force_refresh, "loop", None, <<>>)

\* "if response.status_code == 200:" of a requests.get that returned
Succeeded_unless_raised(resp) == resp.raises = "none"
Succeeded(resp) == resp.raises = "none" /\ resp.status = 200

\* one pass of the loop of get_title_content, the request answered by resp
content_attempt(s, g, f, resp) ==
    LET asked == Append(f.trace, Request)
        retried == f.retries + 1
        heard == [f EXCEPT !.answer = Kind(resp)]
        again == [heard EXCEPT !.retries = retried,
                           !.trace = asked \o <<Notice("warning"),
                                                Sleep(Backoff(g))>>]
        giveup(level) == [heard EXCEPT !.pc = "done", !.ret = None,
                                   !.trace = Append(asked, Notice(level))]
        exhausted == [giveup("warning") EXCEPT !.retries = retried]
    IN  IF Succeeded(resp)
        THEN [call |-> [heard EXCEPT !.pc = "done", !.ret = Some(resp.payload),
                                 !.trace = asked],
              ss |-> IF g.cache_results
                     THEN [s EXCEPT !.content = Cache(@, <<f.n, f.date>>, resp.payload)]
                     ELSE s]
        ELSE IF IsTransient(resp)
        THEN [call |-> IF MayRetry(retried, f.max_retries) THEN again ELSE exhausted,
              ss |-> s]
        ELSE IF resp.raises = "none" /\ resp.status = 404
        THEN [call |-> giveup("warning"), ss |-> s]
        ELSE [call |-> giveup("error"), ss |-> s]

\* the loop run to its end against the answers the store gives in turn
RECURSIVE content_loop(_, _, _, _)
content_loop(s, g, f, answers) ==
    IF f.pc = "done" \/ Len(answers) = 0
    THEN [ret |-> f.ret, ss |-> s, trace |-> f.trace]
    ELSE With(content_attempt(s, g, f, Head(answers)),
              LAMBDA r : content_loop(r.ss, g, r.call, Tail(answers)))

\* get_title_content(title_number, date, max_retries, force_refresh)
get_title_content(s, g, n, date, max_retries, force_refresh, answers) ==
    content_loop(s, g, content_begin(s, g, n, date, max_retries, force_refresh),
                 answers)

Requests(trace) == Cardinality({i \in DOMAIN trace : trace[i].ev = "request"})
Sleeps(trace) == Cardinality({i \in DOMAIN trace : trace[i].ev = "sleep"})

----------------------------------------------------------------------------
(* Word counter *)

NonWordChars == {" ", "<", ">", "/", "=", ".", ",", "-"}
\* \w for the characters of the model's texts
IsWordChar(c) == c \notin NonWordChars

\* len(re.findall(r'\b\w+\b', text)): the maximal runs of word characters
WordRuns(text) ==
    Cardinality({i \in DOMAIN text :
        IsWordChar(text[i]) /\ (i = 1 \/ ~IsWordChar(text[i - 1]))})

\* the first ">" after position i that closes a tag opened at i, or 0
TagEnd(text, i) ==
    LET closers == {j \in (i + 1)..Len(text) : text[j] = ">"}
        first == CHOOSE j \in closers : \A k \in closers : j <= k
    IN  IF text[i] = "<" /\ closers # {} /\ first > i + 1 THEN first ELSE 0

\* the text with every "<...>" replaced by filler, scanned left to right
RECURSIVE ReplaceTags(_, _, _)
ReplaceTags(text, i, filler) ==
    IF i > Len(text) THEN <<>>
    ELSE LET end == TagEnd(text, i)
         IN  IF end > 0
             THEN filler \o ReplaceTags(text, end + 1, filler)
             ELSE <<text[i]>> \o ReplaceTags(text, i + 1, filler)

\* BeautifulSoup(xml_content, 'lxml-xml').get_text(): the element text
GetText(xml_content) == ReplaceTags(xml_content, 1, <<>>)
\* re.sub(r'<[^>]+>', ' ', xml_content)
TextWithoutTags(xml_content) == ReplaceTags(xml_content, 1, <<" ">>)

\* BeautifulSoup(xml_content, 'lxml-xml') raises when the installation has
\* no lxml; with lxml it reads markup that is not well formed without
\* raising (the parser recovers) and closes the elements left open
ParserRaises(xml_content, b) == ~b.lxml

\* count_words_in_xml: the parser path, or the regex path when the parser
\* raises
count_words_in_xml(xml_content, b) ==
    IF Len(xml_content) = 0 THEN 0
    ELSE IF ~ParserRaises(xml_content, b) THEN WordRuns(GetText(xml_content))
    ELSE WordRuns(TextWithoutTags(xml_content))

\* count_words_in_xml of an argument that may be None: "if not xml_content"
CountWords(arg, b) ==
    IF ~(IsSome(arg) /\ Len(Get(arg)) > 0) THEN 0
    ELSE count_words_in_xml(Get(arg), b)

----------------------------------------------------------------------------
(* Agency hierarchy index *)

\* Python values of a title reference: the int n, and the str of it
IntVal(n) == [py |-> "int", v |-> n]
StrVal(n) == [py |-> "str", v |-> n]
PyStr(x) == StrVal(x.v)

\* an insertion-ordered dict: its keys in order, and the value of each
EmptyDict == [order |-> <<>>, val |-> <<>>]
Has(d, k) == k \in DOMAIN d.val
DictSet(d, k, v) ==
    [order |-> IF Has(d, k) THEN d.order ELSE Append(d.order, k),
     val |-> Put(d.val, k, v)]
DictGet(d, k, default) == IF Has(d, k) THEN d.val[k] ELSE default

\* agency_to_titles[name].add(ref["title"]) for each reference in turn
RECURSIVE AddRefs(_, _, _)
AddRefs(d, name, refs) ==
    IF Len(refs) = 0 THEN d
    ELSE With(DictSet(d, name, DictGet(d, name, {}) \cup {IntVal(Head(refs).title)}),
              LAMBDA added : AddRefs(added, name, Tail(refs)))

\* the inner loop over agency["children"]: each child's own references
RECURSIVE AddChildren(_, _)
AddChildren(d, kids) ==
    IF Len(kids) = 0 THEN d
    ELSE With(AddRefs(d, Head(kids).name, Head(kids).cfr_references),
              LAMBDA added : AddChildren(added, Tail(kids)))

\* create_agency_title_mapping: the top-level agencies and their children
RECURSIVE mapping_from(_, _)
mapping_from(d, agencies) ==
    IF Len(agencies) = 0 THEN d
    ELSE With(Head(agencies), LAMBDA a :
         With(AddRefs(d, a.name, a.cfr_references), LAMBDA own :
         With(AddChildren(own, a.children), LAMBDA added :
             mapping_from(added, Tail(agencies)))))

create_agency_title_mapping(agencies) == mapping_from(EmptyDict, agencies)

\* title_to_agencies: for each title, its owners in the order of the mapping
OwnersOf_anyone(agency_to_titles, title) == agency_to_titles.order
OwnersOf(agency_to_titles, title) ==
    SelectSeq(agency_to_titles.order, LAMBDA a : title \in agency_to_titles.val[a])

title_to_agencies(agency_to_titles) ==
    LET titles == UNION {agency_to_titles.val[a] : a \in DOMAIN agency_to_titles.val}
    IN  [t \in titles |-> OwnersOf(agency_to_titles, t)]

----------------------------------------------------------------------------
(* Attribution *)

\* the unit of attributed counts: 1/Scale of a word (exact for 1 to 4 owners)
Scale == 3 * 4

\* "count_per_agency = word_count / len(agencies_for_title)"
Share_whole(word_count, k) == word_count * Scale
Share(word_count, k) == (word_count * Scale) \div k

\* agency_word_counts[agency] += count_per_agency for each owner in turn
RECURSIVE Credit(_, _, _)
Credit(totals, owners, amount) ==
    IF Len(owners) = 0 THEN totals
    ELSE With(DictSet(totals, Head(owners), DictGet(totals, Head(owners), 0) + amount),
              LAMBDA credited : Credit(credited, Tail(owners), amount))

\* title_to_agencies.get(title, []) for a key of title_word_counts
OwnersFor_or_unassigned(t2a, title) ==
    IF IntVal(title) \in DOMAIN t2a THEN t2a[IntVal(title)] ELSE << <<"?">> >>
OwnersFor(t2a, title) ==
    IF IntVal(title) \in DOMAIN t2a THEN t2a[IntVal(title)] ELSE <<>>

\* the loop over title_word_counts.items()
RECURSIVE attribute(_, _, _, _)
attribute(totals, counted, word_counts, t2a) ==
    IF Len(counted) = 0 THEN totals
    ELSE LET title == Head(counted)
             owners == OwnersFor(t2a, title)
         IN  With(IF Len(owners) > 0
                  THEN Credit(totals, owners, Share(word_counts.val[title], Len(owners)))
                  ELSE totals,
                  LAMBDA credited : attribute(credited, Tail(counted), word_counts, t2a))

\* df["Word Count"].astype(int) and int(count): truncation of a total
AsInt(total) == total \div Scale

----------------------------------------------------------------------------
(* The upstream as the analysis runs meet it *)

\* the answer of agencies.json and of titles.json while the store is in a mode
AgenciesAnswer(nt) ==
    CASE nt.agencies = "ok" -> Http(200, Catalog1)
      [] nt.agencies = "timeout" -> Raised("Timeout")
      [] OTHER -> Http(500, <<>>)

TitlesAnswer(nt) ==
    CASE nt.titles = "ok" -> Http(200, TitleList1)
      [] nt.titles = "short" -> Http(200, TitleList2)
      [] nt.titles = "timeout" -> Raised("Timeout")
      [] OTHER -> Http(500, <<>>)

\* the answers to the successive requests of one call for title n
TitleAnswers(nt, n, date) ==
    LET mode == IF n \in DOMAIN nt.content THEN nt.content[n] ELSE "notfound"
        ok == Http(200, Body(n, date))
    IN  CASE mode = "ok" -> <<ok, ok>>
          [] mode = "flaky" -> <<Http(504, <<>>), ok>>
          [] mode = "gateway" -> <<Http(504, <<>>), Raised("Timeout")>>
          [] mode = "empty" -> <<Http(200, <<>>), Http(200, <<>>)>>
          [] mode = "blank" -> <<Http(200, Blank), Http(200, Blank)>>
          [] mode = "withdrawn" -> IF date[1] <= 2024 THEN <<ok, ok>>
                                   ELSE <<Http(404, <<>>), Http(404, <<>>)>>
          [] mode = "error" -> <<Raised("Exception"), Raised("Exception")>>
          [] OTHER -> <<Http(404, <<>>), Http(404, <<>>)>>

----------------------------------------------------------------------------
(* The title loop shared by the three products *)

\* "use_date = target; if latest < target: use_date = latest"
UseDate_latest(title_info, target_date) == title_info.latest_amended_on
UseDate(title_info, target_date) ==
    IF DateLT(title_info.latest_amended_on, target_date)
    THEN title_info.latest_amended_on ELSE target_date

\* "if title_info.get("reserved", False): continue"
IsReserved_never(title_info) == FALSE
IsReserved(title_info) == title_info.reserved

\* what a loop has gathered: the session, title_word_counts, the per-title
\* error entries, the fetches made and everything done on the way
LoopStart(s) ==
    [ss |-> s, counts |-> EmptyDict, errors |-> EmptyDict, fetched |-> <<>>,
     trace |-> <<>>]

\* "if title_content:" - neither None nor the empty string
Truthy(ret) == IsSome(ret) /\ Len(Get(ret)) > 0

\* "if title_content: title_word_counts[title_number] = count_words_in_xml(...)"
Counted_zero_without_content(counts, n, ret, b) ==
    IF Truthy(ret) THEN DictSet(counts, n, count_words_in_xml(Get(ret), b))
    ELSE DictSet(counts, n, 0)
Counted(counts, n, ret, b) ==
    IF Truthy(ret) THEN DictSet(counts, n, count_words_in_xml(Get(ret), b))
    ELSE counts

\* "else: title_fetch_errors[title_number] = ..." - the composition only
Noted_nowhere(errors, n, ret, log_errors) == errors
Noted(errors, n, ret, log_errors) ==
    IF log_errors /\ ~Truthy(ret)
    THEN DictSet(errors, n, "No content received")
    ELSE errors

\* "time.sleep(throttle_delay)", the last statement of the body of the loop
Pause_after_content(g, ret) ==
    IF Truthy(ret) THEN <<Sleep(g.throttle_delay)>> ELSE <<>>
Pause(g, ret) == <<Sleep(g.throttle_delay)>>

\* the body of the loop for one title: skip a reserved title, pick the date,
\* fetch, count when there is content, (composition only) log when there is
\* none, then pause
process_title(st, g, b, nt, title_info, target_date, force_refresh, log_errors) ==
    IF IsReserved(title_info) THEN st
    ELSE LET n == title_info.number IN
         LET use_date == UseDate(title_info, target_date) IN
         With(get_title_content(st.ss, g, n, use_date, DefaultMaxRetries,
                                force_refresh, TitleAnswers(nt, n, use_date)),
              LAMBDA r :
             [ss |-> r.ss,
              counts |-> Counted(st.counts, n, r.ret, b),
              errors |-> Noted(st.errors, n, r.ret, log_errors),
              fetched |-> Append(st.fetched,
                                 [n |-> n, date |-> use_date,
                                  target |-> target_date,
                                  requests |-> Requests(r.trace),
                                  content |-> Truthy(r.ret)]),
              trace |-> st.trace \o r.trace \o Pause(g, r.ret)])

\* what the for statement goes on with after the body has run for titles[0]
Remaining_until_failure(done, titles) ==
    IF Len(done.fetched) > 0 /\ ~done.fetched[Len(done.fetched)].content
    THEN <<>> ELSE Tail(titles)
Remaining(done, titles) == Tail(titles)

RECURSIVE process_titles(_, _, _, _, _, _, _, _)
process_titles(st, g, b, nt, titles, target_date, force_refresh, log_errors) ==
    IF Len(titles) = 0 THEN st
    ELSE With(process_title(st, g, b, nt, Head(titles), target_date,
                            force_refresh, log_errors),
              LAMBDA done :
                  process_titles(done, g, b, nt, Remaining(done, titles),
                                 target_date, force_refresh, log_errors))

\* titles_info[:process_size] with process_size = min(max_titles, len(titles_info))
Capped(titles_info, max_titles) ==
    SubSeq(titles_info, 1, Min(max_titles, Len(titles_info)))

\* the attribution loop over a finished title_word_counts
Totals(counts, t2a) == attribute(EmptyDict, counts.order, counts, t2a)

----------------------------------------------------------------------------
(* Request cache keys.  An f-string joins its fields with "_"; every field   *)
(* but the agency name is free of "_", so the string and the tuple of its   *)
(* fields determine each other.                                             *)

\* selected_agency.replace(' ', '_')
NameKey(name) == [i \in DOMAIN name |-> IF name[i] = " " THEN "_" ELSE name[i]]

\* f"agency_analysis_{max_titles}_{target_date_str}_{skip}_{timeout}_{throttle}"
SnapshotKey(g) ==
    <<"agency_analysis", g.max_titles, g.target_date, g.skip_problematic_titles,
      g.request_timeout, g.throttle_delay>>

\* f"wordcount_time_{start_year}_{end_year}_{max_titles}_{target_date_str}_{skip}_{timeout}"
SeriesKey(g, start_year, end_year) ==
    <<"wordcount_time", start_year, end_year, g.max_titles, g.target_date,
      g.skip_problematic_titles, g.request_timeout>>

\* f"agency_composition_{selected_agency.replace(' ', '_')}_{target_date_str}_{skip}_{timeout}"
CompositionKey(g, selected_agency) ==
    <<"agency_composition", NameKey(selected_agency), g.target_date,
      g.skip_problematic_titles, g.request_timeout>>

----------------------------------------------------------------------------
(* Tab 1: the snapshot ("Calculate Word Counts") *)

\* the seven values the snapshot keeps; a DataFrame is kept as the column
\* "Word Count" by row label, its sorting left out
SnapshotTables(agencies, titles_info, counts, totals) ==
    [agencies |-> agencies,
     titles_info |-> titles_info,
     title_word_counts |-> counts,
     all_agencies_df |-> [a \in DOMAIN totals.val |-> AsInt(totals.val[a])],
     senior_agencies_df |->
         [a \in DOMAIN totals.val \cap {agencies[i].name : i \in DOMAIN agencies}
             |-> AsInt(totals.val[a])],
     title_df |-> counts.val,
     agency_word_counts |-> totals]

\* "if cache_results and cache_key in st.session_state"
RequestCached(s, g, key) == g.cache_results /\ key \in s.keys

\* lines 343-491: the handler of the button, from the session s
snapshot(s, g, b, nt) ==
    LET key == SnapshotKey(g) IN
    IF RequestCached(s, g, key)
    THEN With(s.stored[key], LAMBDA R :
             [ss |-> [s EXCEPT !.agencies = Some(R.agencies),
                               !.titles_info = Some(R.titles_info),
                               !.shown = Some(R)],
              tables |-> R, from_cache |-> TRUE, list_requests |-> <<0, 0>>,
              fetched |-> <<>>, trace |-> <<>>])
    ELSE With(get_agencies(s, g, ~g.cache_results, AgenciesAnswer(nt)), LAMBDA ra :
         With(get_titles(ra.ss, g, ~g.cache_results, TitlesAnswer(nt)), LAMBDA rt :
         LET s1 == [rt.ss EXCEPT !.agencies = Some(ra.ret),
                                !.titles_info = Some(rt.ret)] IN
         With(title_to_agencies(create_agency_title_mapping(ra.ret)), LAMBDA t2a :
         With(process_titles(LoopStart(s1), g, b, nt,
                             Capped(rt.ret, g.max_titles), g.target_date,
                             ~g.cache_results, FALSE), LAMBDA loop :
         With(SnapshotTables(ra.ret, rt.ret, loop.counts,
                             Totals(loop.counts, t2a)), LAMBDA R :
             [ss |-> [loop.ss EXCEPT
                         !.shown = Some(R),
                         !.stored = IF g.cache_results THEN Put(@, key, R) ELSE @],
              tables |-> R, from_cache |-> FALSE,
              list_requests |-> <<Requests(ra.trace), Requests(rt.trace)>>,
              fetched |-> loop.fetched,
              trace |-> ra.trace \o rt.trace \o loop.trace])))))

----------------------------------------------------------------------------
(* Tab 3: the hierarchy view, whose first lines run on every script run *)

\* "if 'agencies' not in st.session_state: st.session_state.agencies = get_agencies()"
ensure_agencies(s, g, nt, force_refresh) ==
    IF IsSome(s.agencies) THEN [ss |-> s, requests |-> 0]
    ELSE With(get_agencies(s, g, force_refresh, AgenciesAnswer(nt)), LAMBDA r :
             [ss |-> [r.ss EXCEPT !.agencies = Some(r.ret)],
              requests |-> Requests(r.trace)])

----------------------------------------------------------------------------
(* Tab 4: word counts over time *)

\* collect_agency_names: every name of the forest, at any depth
RECURSIVE NamesIn(_)
NamesIn(agency_list) ==
    IF Len(agency_list) = 0 THEN {}
    ELSE {Head(agency_list).name} \cup NamesIn(Head(agency_list).children)
             \cup NamesIn(Tail(agency_list))

\* list(range(start_year, end_year + 1))
YearRange(start_year, end_year) ==
    [i \in 1..(end_year - start_year + 1) |-> start_year + i - 1]

\* "target_date = f'{year}-01-01'"
YearDate(year) == <<year, 1, 1>>

\* "title_word_counts = {}" at the top of the body of the loop over the years
YearStart_carrying(acc, year) ==
    [LoopStart(acc.ss) EXCEPT
        !.counts = IF year - 1 \in DOMAIN acc.counts THEN acc.counts[year - 1]
                   ELSE EmptyDict]
YearStart(acc, year) == LoopStart(acc.ss)

\* the loop over the years of calculate_word_counts_over_time: each year gets
\* a new title_word_counts and its own attribution
RECURSIVE over_years(_, _, _, _, _, _, _, _)
over_years(acc, g, b, nt, titles_info, years, max_titles, t2a) ==
    IF Len(years) = 0 THEN acc
    ELSE LET year == Head(years) IN
         With(process_titles(YearStart(acc, year), g, b, nt,
                             Capped(titles_info, max_titles), YearDate(year),
                             FALSE, FALSE), LAMBDA loop :
             over_years(
                 [ss |-> loop.ss,
                  by_year |-> Put(acc.by_year, year, Totals(loop.counts, t2a)),
                  counts |-> Put(acc.counts, year, loop.counts),
                  fetched |-> acc.fetched \o loop.fetched,
                  trace |-> acc.trace \o loop.trace],
                 g, b, nt, titles_info, Tail(years), max_titles, t2a))

\* calculate_word_counts_over_time(agencies, titles_info, years, max_titles, throttle_delay)
calculate_word_counts_over_time(s, g, b, nt, agencies, titles_info, years, max_titles) ==
    over_years([ss |-> s, by_year |-> <<>>, counts |-> <<>>, fetched |-> <<>>,
                trace |-> <<>>],
               g, b, nt, titles_info, years, max_titles,
               title_to_agencies(create_agency_title_mapping(agencies)))

\* "if 'titles_info' not in st.session_state: ... = get_titles(force_refresh=not cache_results)"
ensure_titles(s, g, nt) ==
    IF IsSome(s.titles_info) THEN [ss |-> s, requests |-> 0]
    ELSE With(get_titles(s, g, ~g.cache_results, TitlesAnswer(nt)), LAMBDA r :
             [ss |-> [r.ss EXCEPT !.titles_info = Some(r.ret)],
              requests |-> Requests(r.trace)])

\* the rows of time_df: int(count) by (year, agency) for the selected agencies
TimeRows(by_year, selected_agencies) ==
    LET cells == {<<y, a>> : y \in DOMAIN by_year, a \in selected_agencies}
    IN  [c \in {c \in cells : Has(by_year[c[1]], c[2])}
            |-> AsInt(by_year[c[1]].val[c[2]])]

\* lines 861-913: the handler of "Calculate Word Counts Over Time"
series(s, g, b, nt, start_year, end_year, selected_agencies) ==
    LET key == SeriesKey(g, start_year, end_year) IN
    IF RequestCached(s, g, key)
    THEN [ss |-> [s EXCEPT !.shown_series = Some(s.stored[key])],
          tables |-> s.stored[key], from_cache |-> TRUE,
          list_requests |-> <<0, 0>>, fetched |-> <<>>, trace |-> <<>>,
          counts |-> <<>>]
    ELSE With(ensure_titles(s, g, nt), LAMBDA t :
         With(calculate_word_counts_over_time(
                  t.ss, g, b, nt, Get(t.ss.agencies), Get(t.ss.titles_info),
                  YearRange(start_year, end_year), g.max_titles), LAMBDA c :
         With([word_counts_by_year |-> c.by_year,
               time_df |-> TimeRows(c.by_year, selected_agencies)], LAMBDA R :
             [ss |-> [c.ss EXCEPT
                         !.shown_series = Some(R),
                         !.stored = IF g.cache_results THEN Put(@, key, R) ELSE @,
                         !.keys = IF g.cache_results THEN @ \cup {key} ELSE @],
              tables |-> R, from_cache |-> FALSE,
              list_requests |-> <<0, t.requests>>, fetched |-> c.fetched,
              trace |-> c.trace, counts |-> c.counts])))

----------------------------------------------------------------------------
(* Tab 5: regulatory composition of one agency *)

\* a set of title references in the order the loops visit it
RECURSIVE InOrder(_)
InOrder(refs) ==
    IF refs = {} THEN <<>>
    ELSE LET low == CHOOSE r \in refs : \A q \in refs : r.v <= q.v
         IN  <<low>> \o InOrder({q \in refs : q.v # low.v})

\* next((t for t in titles_info if str(t["number"]) == str(title_num)), None)
\* for each title_num in turn, the matches appended
RECURSIVE MatchByString(_, _)
MatchByString(titles_info, nums) ==
    IF Len(nums) = 0 THEN <<>>
    ELSE LET hits == SelectSeq(titles_info,
                               LAMBDA t : StrVal(t.number) = PyStr(Head(nums)))
         IN  (IF Len(hits) > 0 THEN <<Head(hits)>> ELSE <<>>)
                 \o MatchByString(titles_info, Tail(nums))

\* lines 1072-1085: the titles the composition loop goes through
relevant_titles(titles_info, titles_for_agency) ==
    LET direct == SelectSeq(titles_info,
                            LAMBDA t : StrVal(t.number) \in titles_for_agency)
        matched == MatchByString(titles_info, InOrder(titles_for_agency))
    IN  IF Len(direct) > 0 THEN direct
        ELSE IF Len(matched) > 0 THEN matched
        ELSE SubSeq(titles_info, 1, Min(10, Len(titles_info)))

\* sum(title_word_counts.values())
TotalWords(counts) == SeqSum([i \in DOMAIN counts.order |-> counts.val[counts.order[i]]])

\* round((word_count / total_words) * 100, 2), in hundredths of a percent
Percentage(word_count, total_words) ==
    IF total_words > 0
    THEN (2 * 10000 * word_count + total_words) \div (2 * total_words)
    ELSE 0

\* lines 1023-1159: the handler of "Analyze Regulatory Composition"
composition(s, g, b, nt, selected_agency) ==
    LET key == CompositionKey(g, selected_agency) IN
    IF RequestCached(s, g, key)
    THEN [ss |-> s, tables |-> s.stored[key], from_cache |-> TRUE,
          list_requests |-> <<0, 0>>, fetched |-> <<>>, trace |-> <<>>,
          relevant |-> <<>>]
    ELSE With(ensure_titles(s, g, nt), LAMBDA t :
         LET titles_info == Get(t.ss.titles_info) IN
         With(DictGet(create_agency_title_mapping(Get(t.ss.agencies)),
                      selected_agency, {}), LAMBDA titles_for_agency :
         With(IF titles_for_agency = {} THEN <<>>
              ELSE relevant_titles(titles_info, titles_for_agency), LAMBDA relevant :
         With(process_titles(LoopStart(t.ss), g, b, nt, relevant,
                             g.target_date, ~g.cache_results, TRUE), LAMBDA loop :
         With(TotalWords(loop.counts), LAMBDA total :
         With([title_word_counts |-> loop.counts,
               composition_df |->
                   [n \in DOMAIN loop.counts.val |->
                       [words |-> loop.counts.val[n],
                        percentage |-> Percentage(loop.counts.val[n], total)]],
               total_words |-> total,
               title_fetch_errors |-> loop.errors,
               has_data |-> Len(loop.counts.order) > 0], LAMBDA R :
             [ss |-> [loop.ss EXCEPT
                         !.stored = IF g.cache_results THEN Put(@, key, R) ELSE @,
                         !.keys = IF g.cache_results THEN @ \cup {key} ELSE @],
              tables |-> R, from_cache |-> FALSE,
              list_requests |-> <<0, t.requests>>, fetched |-> loop.fetched,
              trace |-> loop.trace,
              relevant |-> [i \in DOMAIN relevant |-> relevant[i].number]]))))))

----------------------------------------------------------------------------
(* Initial values *)

\* the defaults of the sidebar widgets (lines 17-20, 318-335)
DefaultGlobals ==
    Globals(TRUE, TRUE, 5, <<2025, 1, 1>>, DefaultTimeout, DefaultThrottle)

IdleCall ==
    [fn |-> "none", n |-> 0, date |-> <<0, 0, 0>>, max_retries |-> 0,
     force_refresh |-> FALSE, pc |-> "done", retries |-> 0, ret |-> None,
     trace |-> <<>>, answer |-> "", had |-> None, seq |-> 0]

AllUp == [agencies |-> "ok", titles |-> "ok", content |-> [n \in TitleNums |-> "ok"]]

NoRun == [kind |-> "none"]
NoPair == [kind |-> "none", a |-> <<>>, b |-> <<>>, keys |-> <<>>]

----------------------------------------------------------------------------
(* Specification SpecFetch: the three retrieval functions called directly,  *)
(* with every argument and every answer of the store.  The sidebar's two   *)
(* checkboxes are set before each call; get_title_content advances one     *)
(* request at a time.                                                      *)

FetchTitles == {1, 7, 12}

SetBoxes(cache, skip) ==
    [cfg EXCEPT !.cache_results = cache, !.skip_problematic_titles = skip]

CallGetAgencies ==
    /\ call.pc = "done"
    /\ call.seq < MaxCalls
    /\ \E cache \in BOOLEAN, force \in BOOLEAN, resp \in ListAnswers(AgencyCatalogs) :
         LET g == SetBoxes(cache, cfg.skip_problematic_titles)
             r == get_agencies(ss, g, force, resp)
         IN  /\ cfg' = g
             /\ ss' = r.ss
             /\ call' = [IdleCall EXCEPT !.fn = "get_agencies", !.force_refresh = force,
                                         !.ret = Some(r.ret), !.trace = r.trace,
                                         !.answer = IF Len(r.trace) > 0
                                                    THEN Kind(resp) ELSE "",
                                         !.had = ss.agencies_cache,
                                         !.seq = call.seq + 1]
    /\ UNCHANGED <<net, build, last, twin, keyreq>>

CallGetTitles ==
    /\ call.pc = "done"
    /\ call.seq < MaxCalls
    /\ \E cache \in BOOLEAN, force \in BOOLEAN, resp \in ListAnswers(TitleLists) :
         LET g == SetBoxes(cache, cfg.skip_problematic_titles)
             r == get_titles(ss, g, force, resp)
         IN  /\ cfg' = g
             /\ ss' = r.ss
             /\ call' = [IdleCall EXCEPT !.fn = "get_titles", !.force_refresh = force,
                                         !.ret = Some(r.ret), !.trace = r.trace,
                                         !.answer = IF Len(r.trace) > 0
                                                    THEN Kind(resp) ELSE "",
                                         !.had = ss.titles_cache,
                                         !.seq = call.seq + 1]
    /\ UNCHANGED <<net, build, last, twin, keyreq>>

BeginGetTitleContent ==
    /\ call.pc = "done"
    /\ call.seq < MaxCalls
    /\ \E cache \in BOOLEAN, skip \in BOOLEAN, n \in FetchTitles, date \in TargetDates,
          max_retries \in 0..MaxRetries, force \in BOOLEAN :
         LET g == SetBoxes(cache, skip)
             f == content_begin(ss, g, n, date, max_retries, force)
         IN  /\ cfg' = g
             /\ call' = [had |-> IF <<n, date>> \in DOMAIN ss.content
                                 THEN Some(ss.content[<<n, date>>]) ELSE None,
                         seq |-> call.seq + 1] @@ f
    /\ UNCHANGED <<ss, net, build, last, twin, keyreq>>

AnswerRequest ==
    /\ call.pc = "loop"
    /\ \E resp \in ContentAnswers(call.n, call.date) \ {Http(200, <<>>)} :
         LET r == content_attempt(ss, cfg, call, resp)
         IN  /\ call' = [had |-> call.had, seq |-> call.seq] @@ r.call
             /\ ss' = r.ss
    /\ UNCHANGED <<cfg, net, build, last, twin, keyreq>>

InitFetch ==
    /\ ss = EmptySession
    /\ cfg = DefaultGlobals
    /\ call = IdleCall
    /\ net = AllUp
    /\ build = [lxml |-> TRUE]
    /\ last = NoRun
    /\ twin = [ss |-> EmptySession, last |-> NoRun]
    /\ keyreq = NoPair

NextFetch ==
    \/ CallGetAgencies
    \/ CallGetTitles
    \/ BeginGetTitleContent
    \/ AnswerRequest

SpecFetch == InitFetch /\ [][NextFetch]_vars

----------------------------------------------------------------------------
(* Specification Spec: one browser session.  The script runs once when the  *)
(* page is opened and once for every button pressed; the sidebar is set     *)
(* before a button is pressed.  The store changes what it answers between   *)
(* script runs.                                                             *)

\* the numbers of titles the slider is set to, and the other sidebar values
MaxTitlesChoices == {2, 5}
SidebarDates == {<<2025, 1, 1>>}

SidebarChoices ==
    {Globals(cache, skip, maxt, date, DefaultTimeout, DefaultThrottle) :
        cache \in BOOLEAN, skip \in BOOLEAN, maxt \in MaxTitlesChoices,
        date \in SidebarDates}

\* the store in order, without its agency list, without its title list, with
\* a title list that lacks titles the agencies reference, with three titles
\* in trouble, and with a title whose document is empty next to a title
\* that has no version from 2025 on and a title whose document has no words
NetStates ==
    {AllUp,
     [AllUp EXCEPT !.agencies = "error"],
     [AllUp EXCEPT !.titles = "timeout"],
     [AllUp EXCEPT !.titles = "short"],
     [AllUp EXCEPT !.content = (1 :> "gateway") @@ (5 :> "flaky") @@ (7 :> "notfound") @@ @],
     [AllUp EXCEPT !.content = (1 :> "empty") @@ (5 :> "withdrawn")
                                  @@ (7 :> "blank") @@ @]}

\* the first script run: the page is opened, no button is pressed
LoadRun(s, g) ==
    With(ensure_agencies(s, g, net, FALSE), LAMBDA r :
        [ss |-> r.ss,
         last |-> [kind |-> "load", seq |-> 0, g |-> g, net |-> net,
                   list_requests |-> <<r.requests, 0>>]])

PageLoad ==
    /\ last.kind = "none"
    /\ \E run \in {LoadRun(ss, cfg)} :
           /\ ss' = run.ss
           /\ last' = run.last
    /\ UNCHANGED <<cfg, call, net, build, twin, keyreq>>

\* a script run with "Calculate Word Counts" pressed, in the session s whose
\* last run was l
SnapshotRun(s, l, g) ==
    With(snapshot(s, g, build, net), LAMBDA r :
        [ss |-> ensure_agencies(r.ss, g, net, FALSE).ss,
         last |-> [kind |-> "snapshot", seq |-> l.seq + 1, g |-> g,
                   net |-> net, key |-> SnapshotKey(g),
                   had_results |-> SnapshotKey(g) \in DOMAIN s.stored,
                   repeats |-> l.kind = "snapshot" /\ l.g = g /\ l.net = net,
                   from_cache |-> r.from_cache,
                   list_requests |-> r.list_requests,
                   fetched |-> r.fetched, trace |-> r.trace,
                   tables |-> r.tables]])

PressSnapshot ==
    /\ last.kind # "none"
    /\ last.seq < MaxRuns
    /\ \E g \in SidebarChoices : \E run \in {SnapshotRun(ss, last, g)} :
           /\ cfg' = g
           /\ ss' = run.ss
           /\ last' = run.last
    /\ UNCHANGED <<call, net, build, twin, keyreq>>

\* the years and the agency selections the time series is asked for
YearRanges == {<<2024, 2024>>, <<2024, 2025>>}
Selections(agencies) == {NamesIn(agencies), {agencies[1].name}}

\* the agencies the tabs 4 and 5 offer: the button is there when there are any
Offered(s, g) == Get(ensure_agencies(s, g, net, FALSE).ss.agencies)

\* a script run with "Calculate Word Counts Over Time" pressed
SeriesRun(s, l, g, years, selected) ==
    With(ensure_agencies(s, g, net, FALSE), LAMBDA pre :
    With(series(pre.ss, g, build, net, years[1], years[2], selected), LAMBDA r :
        [ss |-> r.ss,
         last |-> [kind |-> "series", seq |-> l.seq + 1, g |-> g,
                   net |-> net, key |-> SeriesKey(g, years[1], years[2]),
                   years |-> years, selected |-> selected,
                   from_cache |-> r.from_cache,
                   list_requests |-> <<pre.requests, r.list_requests[2]>>,
                   fetched |-> r.fetched, trace |-> r.trace,
                   counts |-> r.counts, tables |-> r.tables]]))

PressSeries ==
    /\ last.kind # "none"
    /\ last.seq < MaxRuns
    /\ \E cache \in BOOLEAN, skip \in BOOLEAN, years \in YearRanges :
       \E g \in {SetBoxes(cache, skip)} :
         /\ Len(Offered(ss, g)) > 0
         /\ \E selected \in Selections(Offered(ss, g)) :
            \E run \in {SeriesRun(ss, last, g, years, selected)} :
              /\ cfg' = g
              /\ ss' = run.ss
              /\ last' = run.last
    /\ UNCHANGED <<call, net, build, twin, keyreq>>

\* a script run with "Analyze Agency Composition" pressed
CompositionRun(s, l, g, selected) ==
    With(ensure_agencies(s, g, net, FALSE), LAMBDA pre :
    With(composition(pre.ss, g, build, net, selected), LAMBDA r :
        [ss |-> r.ss,
         last |-> [kind |-> "composition", seq |-> l.seq + 1, g |-> g,
                   net |-> net, key |-> CompositionKey(g, selected),
                   selected |-> selected,
                   from_cache |-> r.from_cache,
                   list_requests |-> <<pre.requests, r.list_requests[2]>>,
                   fetched |-> r.fetched, trace |-> r.trace,
                   relevant |-> r.relevant, tables |-> r.tables]]))

PressComposition ==
    /\ last.kind # "none"
    /\ last.seq < MaxRuns
    /\ \E cache \in BOOLEAN, skip \in BOOLEAN :
       \E g \in {SetBoxes(cache, skip)} :
         /\ Len(Offered(ss, g)) > 0
         /\ \E selected \in NamesIn(Offered(ss, g)) :
            \E run \in {CompositionRun(ss, last, g, selected)} :
              /\ cfg' = g
              /\ ss' = run.ss
              /\ last' = run.last
    /\ UNCHANGED <<call, net, build, twin, keyreq>>

\* a later script run with no button pressed (a widget outside the sidebar
\* was changed): the handlers are passed over, the first lines of the tabs
\* 3, 4 and 5 run
PlainRun(s, l, g) ==
    With(ensure_agencies(s, g, net, FALSE), LAMBDA r :
        [ss |-> r.ss,
         last |-> [kind |-> "rerun", seq |-> l.seq + 1, g |-> g, net |-> net,
                   list_requests |-> <<r.requests, 0>>]])

Rerun ==
    /\ last.kind # "none"
    /\ last.seq < MaxRuns
    /\ \E run \in {PlainRun(ss, last, cfg)} :
           /\ ss' = run.ss
           /\ last' = run.last
    /\ UNCHANGED <<cfg, call, net, build, twin, keyreq>>

UpstreamChange ==
    /\ last.kind # "none"
    /\ last.seq < MaxRuns
    /\ \E nt \in NetStates \ {net} : net' = nt
    /\ last' = [last EXCEPT !.seq = @ + 1]
    /\ UNCHANGED <<ss, cfg, call, build, twin, keyreq>>

Init ==
    /\ ss = EmptySession
    /\ cfg = DefaultGlobals
    /\ call = IdleCall
    /\ net \in NetStates
    /\ build = [lxml |-> TRUE]
    /\ last = NoRun
    /\ twin = [ss |-> EmptySession, last |-> NoRun]
    /\ keyreq = NoPair

Next ==
    \/ PageLoad
    \/ PressSnapshot
    \/ PressSeries
    \/ PressComposition
    \/ Rerun
    \/ UpstreamChange

Spec == Init /\ [][Next]_vars

----------------------------------------------------------------------------
(* Specification SpecPair: two sessions against one store that does not     *)
(* change, given the same button presses with the same sidebar, the first   *)
(* with "Cache results" ticked and the second (twin) with it unticked.      *)
(* The page opens with the defaults in both: the box is there to untick    *)
(* only after the first script run.                                         *)

WithoutCaching(g) == [g EXCEPT !.cache_results = FALSE]

PairChoices == {g \in SidebarChoices : g.cache_results}

PairLoad ==
    /\ last.kind = "none"
    /\ \E on \in {LoadRun(ss, cfg)}, off \in {LoadRun(twin.ss, cfg)} :
           /\ ss' = on.ss
           /\ last' = on.last
           /\ twin' = [ss |-> off.ss, last |-> off.last]
    /\ UNCHANGED <<cfg, call, net, build, keyreq>>

PairSnapshot ==
    /\ last.kind # "none"
    /\ last.seq < MaxRuns
    /\ \E g \in PairChoices :
       \E on \in {SnapshotRun(ss, last, g)},
          off \in {SnapshotRun(twin.ss, twin.last, WithoutCaching(g))} :
           /\ cfg' = g
           /\ ss' = on.ss
           /\ last' = on.last
           /\ twin' = [ss |-> off.ss, last |-> off.last]
    /\ UNCHANGED <<call, net, build, keyreq>>

PairSeries ==
    /\ last.kind # "none"
    /\ last.seq < MaxRuns
    /\ \E skip \in BOOLEAN, years \in YearRanges :
       \E g \in {SetBoxes(TRUE, skip)} :
         /\ Len(Offered(ss, g)) > 0
         /\ Offered(twin.ss, WithoutCaching(g)) = Offered(ss, g)
         /\ \E selected \in Selections(Offered(ss, g)) :
            \E on \in {SeriesRun(ss, last, g, years, selected)},
               off \in {SeriesRun(twin.ss, twin.last, WithoutCaching(g),
                                  years, selected)} :
              /\ cfg' = g
              /\ ss' = on.ss
              /\ last' = on.last
              /\ twin' = [ss |-> off.ss, last |-> off.last]
    /\ UNCHANGED <<call, net, build, keyreq>>

PairComposition ==
    /\ last.kind # "none"
    /\ last.seq < MaxRuns
    /\ \E skip \in BOOLEAN :
       \E g \in {SetBoxes(TRUE, skip)} :
         /\ Len(Offered(ss, g)) > 0
         /\ Offered(twin.ss, WithoutCaching(g)) = Offered(ss, g)
         /\ \E selected \in NamesIn(Offered(ss, g)) :
            \E on \in {CompositionRun(ss, last, g, selected)},
               off \in {CompositionRun(twin.ss, twin.last, WithoutCaching(g),
                                       selected)} :
              /\ cfg' = g
              /\ ss' = on.ss
              /\ last' = on.last
              /\ twin' = [ss |-> off.ss, last |-> off.last]
    /\ UNCHANGED <<call, net, build, keyreq>>

InitPair == Init

NextPair ==
    \/ PairLoad
    \/ PairSnapshot
    \/ PairSeries
    \/ PairComposition

SpecPair == InitPair /\ [][NextPair]_vars

----------------------------------------------------------------------------
(* Specification SpecKeys: the cache keys of two requests of one kind.      *)

KeyTimeouts == {DefaultTimeout, 120}
KeyThrottles == {DefaultThrottle, 5}
KeyNames == {NameAB, <<"A", "_", "B">>, NameC}

KeyGlobals ==
    {Globals(TRUE, skip, maxt, date, timeout, throttle) :
        skip \in BOOLEAN, maxt \in MaxTitlesChoices, date \in TargetDates,
        timeout \in KeyTimeouts, throttle \in KeyThrottles}

KeyRequest(kind, g, years, selected) ==
    [kind |-> kind, g |-> g, years |-> years, selected |-> selected]

KeyRequests(kind) ==
    CASE kind = "snapshot" ->
             {KeyRequest(kind, g, <<0, 0>>, <<>>) : g \in KeyGlobals}
      [] kind = "series" ->
             {KeyRequest(kind, g, years, <<>>) :
                 g \in KeyGlobals, years \in YearRanges}
      [] kind = "composition" ->
             {KeyRequest(kind, g, <<0, 0>>, name) :
                 g \in KeyGlobals, name \in KeyNames}

\* line 345
SnapshotKeys ==
    /\ keyreq.kind = "snapshot"
    /\ keyreq.keys = None
    /\ keyreq' = [keyreq EXCEPT !.keys =
                     Some(<<SnapshotKey(keyreq.a.g), SnapshotKey(keyreq.b.g)>>)]
    /\ UNCHANGED <<ss, cfg, call, net, build, last, twin>>

\* line 865
SeriesKeys ==
    /\ keyreq.kind = "series"
    /\ keyreq.keys = None
    /\ keyreq' = [keyreq EXCEPT !.keys =
         Some(<<SeriesKey(keyreq.a.g, keyreq.a.years[1], keyreq.a.years[2]),
                SeriesKey(keyreq.b.g, keyreq.b.years[1], keyreq.b.years[2])>>)]
    /\ UNCHANGED <<ss, cfg, call, net, build, last, twin>>

\* line 1026
CompositionKeys ==
    /\ keyreq.kind = "composition"
    /\ keyreq.keys = None
    /\ keyreq' = [keyreq EXCEPT !.keys =
         Some(<<CompositionKey(keyreq.a.g, keyreq.a.selected),
                CompositionKey(keyreq.b.g, keyreq.b.selected)>>)]
    /\ UNCHANGED <<ss, cfg, call, net, build, last, twin>>

InitKeys ==
    /\ ss = EmptySession
    /\ cfg = DefaultGlobals
    /\ call = IdleCall
    /\ net = AllUp
    /\ build = [lxml |-> TRUE]
    /\ last = NoRun
    /\ twin = [ss |-> EmptySession, last |-> NoRun]
    /\ \E kind \in {"snapshot", "series", "composition"} :
       \E a \in KeyRequests(kind), b \in KeyRequests(kind) :
           keyreq = [kind |-> kind, a |-> a, b |-> b, keys |-> None]

NextKeys ==
    \/ SnapshotKeys
    \/ SeriesKeys
    \/ CompositionKeys

SpecKeys == InitKeys /\ [][NextKeys]_vars

----------------------------------------------------------------------------
(* Specification SpecIndex: create_agency_title_mapping called on a forest  *)
(* of agencies up to three deep, and the reverse mapping built from what it *)
(* returns.                                                                 *)

\* the cfr_references an agency of a forest may carry
RefLists == {<<>>, <<5>>, <<1, 7>>, <<7, 7>>}

Leaves == {Agency(NameC, "c", refs, <<>>) : refs \in RefLists}
Branches ==
    {Agency(NameAB, "a-b", refs, kids) :
        refs \in RefLists, kids \in {<<>>} \cup {<<k>> : k \in Leaves}}
Roots ==
    {Agency(NameA, "a", refs, kids) :
        refs \in RefLists, kids \in {<<>>} \cup {<<k>> : k \in Branches}}
\* a second top-level agency, under a name of its own or under the first's
Seconds == {Agency(name, "d", <<1, 7>>, <<>>) : name \in {NameD, NameA}}
Forests == {<<r>> : r \in Roots} \cup {<<r, d>> : r \in Roots, d \in Seconds}

\* "agency_to_titles = create_agency_title_mapping(agencies)"
CreateMapping ==
    /\ call.pc = "start"
    /\ call' = [call EXCEPT !.pc = "mapped",
                            !.agency_to_titles = create_agency_title_mapping(call.agencies)]
    /\ UNCHANGED <<ss, cfg, net, build, last, twin, keyreq>>

\* the loop that fills title_to_agencies (lines 386-389, 240-243)
InvertMapping ==
    /\ call.pc = "mapped"
    /\ call' = [call EXCEPT !.pc = "done",
                            !.title_to_agencies = title_to_agencies(call.agency_to_titles)]
    /\ UNCHANGED <<ss, cfg, net, build, last, twin, keyreq>>

InitIndex ==
    /\ ss = EmptySession
    /\ cfg = DefaultGlobals
    /\ net = AllUp
    /\ build = [lxml |-> TRUE]
    /\ last = NoRun
    /\ twin = [ss |-> EmptySession, last |-> NoRun]
    /\ keyreq = NoPair
    /\ \E forest \in Forests :
           call = [fn |-> "create_agency_title_mapping", pc |-> "start",
                   agencies |-> forest, agency_to_titles |-> EmptyDict,
                   title_to_agencies |-> <<>>]

NextIndex ==
    \/ CreateMapping
    \/ InvertMapping

SpecIndex == InitIndex /\ [][NextIndex]_vars

----------------------------------------------------------------------------
(* Specification SpecTree: the first part of the hierarchy view (tab 3),    *)
(* which sorts the agencies of the session into parents and agencies        *)
(* without parent, run on a forest of agencies up to three deep.            *)

\* lines 618-621: the slugs of the children of the top-level agencies
all_child_slugs(agencies) ==
    UNION {{child.slug : child \in Range(agencies[i].children)} :
              i \in DOMAIN agencies}

\* lines 606-612: the agencies with children, found from the top down
RECURSIVE find_parent_agencies(_)
find_parent_agencies(agency_list) ==
    IF Len(agency_list) = 0 THEN <<>>
    ELSE LET agency == Head(agency_list)
         IN  (IF Len(agency.children) > 0
              THEN <<agency>> \o find_parent_agencies(agency.children)
              ELSE <<>>)
                 \o find_parent_agencies(Tail(agency_list))

\* lines 627-635: an agency with children is passed over for its children,
\* one without is kept unless its slug is among child_slugs
RECURSIVE find_independent_agencies(_, _)
find_independent_agencies(agency_list, child_slugs) ==
    IF Len(agency_list) = 0 THEN <<>>
    ELSE LET agency == Head(agency_list)
         IN  (IF Len(agency.children) > 0
              THEN find_independent_agencies(agency.children, child_slugs)
              ELSE IF agency.slug \notin child_slugs
              THEN <<agency>>
              ELSE <<>>)
                 \o find_independent_agencies(Tail(agency_list), child_slugs)

\* line 641: the top-level agencies and their children
total_agencies(agencies) ==
    Len(agencies) + SeqSum([i \in DOMAIN agencies |-> Len(agencies[i].children)])

\* lines 598-644 of a script run whose session holds a list of agencies
ShowHierarchy ==
    /\ call.pc = "start"
    /\ Len(call.agencies) > 0
    /\ call' = [call EXCEPT
                   !.pc = "done",
                   !.parent_agencies = find_parent_agencies(call.agencies),
                   !.independent_agencies =
                       find_independent_agencies(call.agencies,
                                                 all_child_slugs(call.agencies)),
                   !.total_agencies = total_agencies(call.agencies)]
    /\ UNCHANGED <<ss, cfg, net, build, last, twin, keyreq>>

InitTree ==
    /\ ss = EmptySession
    /\ cfg = DefaultGlobals
    /\ net = AllUp
    /\ build = [lxml |-> TRUE]
    /\ last = NoRun
    /\ twin = [ss |-> EmptySession, last |-> NoRun]
    /\ keyreq = NoPair
    /\ \E forest \in Forests :
           call = [fn |-> "hierarchy", pc |-> "start", agencies |-> forest,
                   parent_agencies |-> <<>>, independent_agencies |-> <<>>,
                   total_agencies |-> 0]

NextTree == ShowHierarchy

SpecTree == InitTree /\ [][NextTree]_vars

----------------------------------------------------------------------------
(* The word counter on its own: count_words_in_xml called once with an      *)
(* argument, in an installation with and in one without the parser.         *)

HelloWorld == <<"<", "a", ">", "h", "e", "l", "l", "o", " ", "w", "o", "r", "l", "d", "<", "/", "a", ">">>
HelloUnclosed == <<"<", "a", ">", "h", "e", "l", "l", "o">>

\* the pieces of the documents: a word, a blank, an empty element
Tokens == {<<"h", "i">>, <<" ">>, <<"<", "b", "/", ">">>}

\* the contents of up to k pieces, and the documents around them
RECURSIVE Contents(_)
Contents(k) ==
    IF k = 0 THEN {<<>>}
    ELSE Contents(k - 1) \cup {c \o t : c \in Contents(k - 1), t \in Tokens}
Documents ==
    {<<"<", "a", ">">> \o c \o <<"<", "/", "a", ">">> : c \in Contents(MaxTokens)}

\* the arguments: None, the empty string, the documents, and a text with an
\* element that is not closed
WordInputs ==
    {None, Some(<<>>), Some(HelloWorld), Some(HelloUnclosed)}
        \cup {Some(d) : d \in Documents}

CallCountWords ==
    /\ call.fn = "count_words_in_xml"
    /\ call.pc = "start"
    /\ call' = [call EXCEPT
                   !.pc = "done",
                   !.ret = CountWords(call.arg, build),
                   !.fallback = IsSome(call.arg) /\ Len(Get(call.arg)) > 0
                                   /\ ParserRaises(Get(call.arg), build)]
    /\ UNCHANGED <<ss, cfg, net, build, last, twin, keyreq>>

InitWords ==
    /\ ss = EmptySession
    /\ cfg = DefaultGlobals
    /\ net = AllUp
    /\ build \in {[lxml |-> TRUE], [lxml |-> FALSE]}
    /\ last = NoRun
    /\ twin = [ss |-> EmptySession, last |-> NoRun]
    /\ keyreq = NoPair
    /\ \E arg \in WordInputs :
           call = [fn |-> "count_words_in_xml", pc |-> "start", arg |-> arg,
                   ret |-> 0, fallback |-> FALSE]

NextWords == CallCountWords

SpecWords == InitWords /\ [][NextWords]_vars

----------------------------------------------------------------------------
(* Properties of the retrieval layer (checked under SpecFetch) *)

ContentCallDone == call.fn = "get_title_content" /\ call.pc = "done"

RequestAt(trace) == {i \in DOMAIN trace : trace[i].ev = "request"}
SleepAt(trace) == {i \in DOMAIN trace : trace[i].ev = "sleep"}

\* C1: with the skip option on, get_title_content for a skip-listed title
\* returns None and issues no request, whatever the date and whatever the
\* session already holds for that title.
C1_SkipListedNeverServed ==
    (ContentCallDone /\ cfg.skip_problematic_titles /\ call.n \in ProblemTitles)
        => (call.ret = None /\ Requests(call.trace) = 0)

\* C2: a call never issues more than max_retries + 1 requests; a call that
\* only ever received 504 answers or timeouts issued exactly max_retries + 1
\* requests, paused 2 x throttle_delay between consecutive requests and not
\* after the last one, and returned None.
C2_RetryBudget ==
    call.fn = "get_title_content" =>
        /\ Requests(call.trace) <= call.max_retries + 1
        /\ (call.pc = "done" /\ call.answer \in {"504", "Timeout"}) =>
              /\ call.ret = None
              /\ Requests(call.trace) = call.max_retries + 1
              /\ Sleeps(call.trace) = call.max_retries
              /\ \A i \in SleepAt(call.trace) :
                    /\ call.trace[i].dur = 2 * cfg.throttle_delay
                    /\ \E p \in RequestAt(call.trace) : p < i
                    /\ \E q \in RequestAt(call.trace) : q > i
              /\ \A p, q \in RequestAt(call.trace) :
                    p < q => \E i \in SleepAt(call.trace) : p < i /\ i < q

\* a call with the default budget that was answered 504 or timeout twice
C2_Witness ==
    /\ ContentCallDone
    /\ call.answer \in {"504", "Timeout"}
    /\ call.max_retries = DefaultMaxRetries
    /\ Requests(call.trace) = 2

\* C3: a 404, any other status that is neither 200 nor 504, and any exception
\* other than a timeout end the call at once with None: the call is over in
\* the state where that answer has been received, so it issues no further
\* request, whatever is left of the retry budget.
C3_TerminalAnswers ==
    (call.fn = "get_title_content" /\ call.answer \in {"404", "other", "Exception"})
        => /\ call.pc = "done"
           /\ call.ret = None
           /\ Requests(call.trace) = call.retries + 1

\* a 404 received while a retry was still allowed
C3_Witness ==
    /\ ContentCallDone
    /\ call.answer = "404"
    /\ call.retries < call.max_retries

StoredNow ==
    CASE call.fn = "get_agencies" -> ss.agencies_cache
      [] call.fn = "get_titles" -> ss.titles_cache
      [] OTHER -> IF <<call.n, call.date>> \in DOMAIN ss.content
                  THEN Some(ss.content[<<call.n, call.date>>]) ELSE None

FetcherDone ==
    /\ call.fn \in {"get_agencies", "get_titles", "get_title_content"}
    /\ call.pc = "done"
    /\ cfg.cache_results

ServedFromStore ==
    (FetcherDone /\ ~call.force_refresh /\ IsSome(call.had))
        => (call.ret = call.had /\ Requests(call.trace) = 0)

RefreshRepopulates ==
    (FetcherDone /\ call.force_refresh /\ call.answer = "200")
        => StoredNow = call.ret

\* C4 as stated: with caching enabled a stored value is returned without a
\* request unless force_refresh is set; with force_refresh set a request is
\* always issued and an OK answer replaces the stored value.
C4_AsStated ==
    /\ ServedFromStore
    /\ (FetcherDone /\ call.force_refresh) => Requests(call.trace) >= 1
    /\ RefreshRepopulates

\* C4 as amended: the same, except that get_title_content with the skip option
\* on issues no request for a skip-listed title even under force_refresh (it
\* returns None and leaves the store alone).
C4_CacheAndRefresh ==
    /\ ServedFromStore
    /\ (FetcherDone /\ call.force_refresh) =>
          IF call.fn = "get_title_content" /\ Skipped(cfg, call.n)
          THEN Requests(call.trace) = 0 /\ call.ret = None /\ StoredNow = call.had
          ELSE Requests(call.trace) >= 1
    /\ RefreshRepopulates

\* a forced refresh that replaced a stored value by a different one
C4_Witness ==
    /\ FetcherDone
    /\ call.force_refresh
    /\ IsSome(call.had)
    /\ call.answer = "200"
    /\ call.ret # call.had
    /\ StoredNow = call.ret

----------------------------------------------------------------------------
(* Properties of the analysis runs (checked under Spec) *)

IsRun == last.kind \in {"snapshot", "series", "composition"}

\* C6: a run made with caching disabled reuses nothing an earlier run left in
\* the session: it is not answered from the request cache, it requests the
\* agency list and the title list again, and it requests the content of
\* every title it processes (a title the skip list holds back is not
\* processed).
C6_NothingReusedWithoutCaching ==
    (IsRun /\ ~last.g.cache_results) =>
        /\ ~last.from_cache
        /\ last.list_requests[1] >= 1
        /\ last.list_requests[2] >= 1
        /\ \A i \in DOMAIN last.fetched :
              ~Skipped(last.g, last.fetched[i].n) => last.fetched[i].requests >= 1

\* C7: a snapshot asked for with caching enabled, whose results an earlier
\* snapshot with the same parameters stored, is answered from the session
\* cache and runs no title loop.
C7_RepeatedSnapshotServedFromCache ==
    (last.kind = "snapshot" /\ last.g.cache_results /\ last.had_results) =>
        (last.from_cache /\ Len(last.fetched) = 0 /\ Len(last.trace) = 0)

\* C9: a snapshot that follows a snapshot with the same parameters, against
\* the same upstream, yields the same per-title and per-agency tables,
\* with caching enabled and with caching disabled.
C9_SnapshotIdempotent ==
    [][(/\ last.kind = "snapshot"
        /\ last'.kind = "snapshot"
        /\ last'.g = last.g
        /\ last'.net = last.net)
          => /\ last'.tables.title_word_counts = last.tables.title_word_counts
             /\ last'.tables.title_df = last.tables.title_df
             /\ last'.tables.agency_word_counts = last.tables.agency_word_counts
             /\ last'.tables.all_agencies_df = last.tables.all_agencies_df
             /\ last'.tables.senior_agencies_df = last.tables.senior_agencies_df]_vars

\* a repeated snapshot with caching on that counted a title it did not have
\* to request again
C9_Witness ==
    /\ last.kind = "snapshot"
    /\ last.repeats
    /\ last.g.cache_results
    /\ \E i \in DOMAIN last.fetched :
          last.fetched[i].content /\ last.fetched[i].requests = 0

\* the owners of a title: the top-level agencies and the children of one that
\* reference it, by name
Listed(agencies) ==
    Range(agencies) \cup UNION {Range(agencies[i].children) : i \in DOMAIN agencies}
OwnerNames(agencies, title) ==
    {a.name : a \in {x \in Listed(agencies) :
                        \E i \in DOMAIN x.cfr_references :
                            x.cfr_references[i].title = title}}

\* what the claim gives agency a: the sum of wc(t)/k(t) over the counted
\* titles a owns, in units of 1/Scale
Due(agencies, counts, a) ==
    LET owned == {t \in DOMAIN counts.val : a \in OwnerNames(agencies, t)}
    IN  SetSum(owned, [t \in owned |->
            (counts.val[t] * Scale) \div Cardinality(OwnerNames(agencies, t))])

Attributed(agencies, counts, totals) ==
    /\ \A a \in NamesIn(agencies) \cup DOMAIN totals.val :
          DictGet(totals, a, 0) = Due(agencies, counts, a)
    /\ SetSum(DOMAIN totals.val, totals.val)
          = LET owned == {t \in DOMAIN counts.val : OwnerNames(agencies, t) # {}}
            IN  Scale * SetSum(owned, [t \in owned |-> counts.val[t]])

\* C10: every per-agency total equals the sum over the counted titles the
\* agency owns of wc(t)/k(t), k(t) the number of owners of t, and the totals
\* add up to the words of the counted titles that have an owner; in the
\* snapshot and in every year of the time series.
C10_ProportionalAttribution ==
    /\ (last.kind = "snapshot" /\ ~last.from_cache) =>
          Attributed(last.tables.agencies, last.tables.title_word_counts,
                     last.tables.agency_word_counts)
    /\ (last.kind = "series" /\ ~last.from_cache) =>
          \A y \in DOMAIN last.counts :
              Attributed(Get(ss.agencies), last.counts[y],
                         last.tables.word_counts_by_year[y])

\* a snapshot that counted a title with three owners and left an agency with
\* a total that is not a whole number of words
C10_Witness ==
    /\ last.kind = "snapshot"
    /\ \E t \in DOMAIN last.tables.title_word_counts.val :
          Cardinality(OwnerNames(last.tables.agencies, t)) = 3
    /\ \E a \in DOMAIN last.tables.agency_word_counts.val :
          last.tables.agency_word_counts.val[a] % Scale # 0

----------------------------------------------------------------------------
(* Caching against recomputation (checked under SpecPair) *)

\* the per-title word counts and the per-agency totals a run arrived at
Outcome(l) ==
    CASE l.kind = "snapshot" ->
             <<l.tables.title_word_counts.val, l.tables.agency_word_counts.val>>
      [] l.kind = "series" ->
             <<[y \in DOMAIN l.tables.word_counts_by_year |->
                   l.tables.word_counts_by_year[y].val]>>
      [] l.kind = "composition" ->
             <<l.tables.title_word_counts.val, l.tables.total_words>>
      [] OTHER -> <<>>

\* C5: against a store that does not change, every request of a sequence of
\* requests yields the same per-title word counts and the same per-agency
\* totals in the session with caching enabled and in the session with
\* caching disabled.
C5_CachingIsTransparent ==
    Outcome(last) = Outcome(twin.last)

----------------------------------------------------------------------------
(* Cache keys (checked under SpecKeys) *)

\* the two requests differ in a parameter the key is to tell apart
DifferInListed(a, b) ==
    \/ a.g.max_titles # b.g.max_titles
    \/ a.g.target_date # b.g.target_date
    \/ a.g.skip_problematic_titles # b.g.skip_problematic_titles
    \/ a.g.request_timeout # b.g.request_timeout
    \/ a.g.throttle_delay # b.g.throttle_delay
    \/ (a.kind = "composition" /\ a.selected # b.selected)

\* C8: two requests of one kind (snapshot, time series, composition) that
\* differ in the cap on titles, the target date, the skip flag, the timeout,
\* the throttle delay or, for composition, the agency name, never get the
\* same cache key.
C8_KeysInjective ==
    (IsSome(keyreq.keys) /\ DifferInListed(keyreq.a, keyreq.b)) =>
        Get(keyreq.keys)[1] # Get(keyreq.keys)[2]

----------------------------------------------------------------------------
(* The title loop of the three products (checked under Spec) *)

\* the title_word_counts maps a run filled: one, or one for each year
WordMaps(l) ==
    CASE l.kind = "snapshot" -> {l.tables.title_word_counts}
      [] l.kind = "series" -> {l.counts[y] : y \in DOMAIN l.counts}
      [] l.kind = "composition" -> {l.tables.title_word_counts}
      [] OTHER -> {}

\* the titles get_title_content was called for in a run
Called(l) == {l.fetched[i].n : i \in DOMAIN l.fetched}

\* the titles of the list the session holds that are flagged reserved
ReservedNums(s) ==
    IF IsSome(s.titles_info)
    THEN {t.number : t \in {x \in Range(Get(s.titles_info)) : x.reserved}}
    ELSE {}

\* C11: no run (snapshot, time series, composition with its fallback
\* selection) calls get_title_content for a title flagged reserved, and no
\* word-count map has such a title as a key.
C11_ReservedNeverFetched ==
    IsRun =>
        /\ Called(last) \cap ReservedNums(ss) = {}
        /\ \A m \in WordMaps(last) : DOMAIN m.val \cap ReservedNums(ss) = {}

\* a composition whose selection of titles held a reserved title and that
\* went on to fetch the others
C11_Witness ==
    /\ last.kind = "composition"
    /\ Range(last.relevant) \cap ReservedNums(ss) # {}
    /\ Called(last) # {}

\* the earlier of two dates
Earlier(a, b) == IF DateLT(b, a) THEN b ELSE a

\* latest_amended_on of title n in the list the session holds
LatestOf(s, n) ==
    (CHOOSE t \in Range(Get(s.titles_info)) : t.number = n).latest_amended_on

\* the target dates of a run: the sidebar date, or January 1 of each year
TargetsOf(l) ==
    IF l.kind = "series"
    THEN {<<y, 1, 1>> : y \in l.years[1]..l.years[2]}
    ELSE {l.g.target_date}

\* C12: every call for content made by a snapshot, a time series (target
\* January 1 of the year) or a composition asks for the earlier of the
\* target date and the title's latest_amended_on, hence never for a date
\* after latest_amended_on.
C12_DateIsEarlierOfTargetAndLatest ==
    IsRun =>
        \A i \in DOMAIN last.fetched :
            LET f == last.fetched[i]
            IN  /\ f.target \in TargetsOf(last)
                /\ f.date = Earlier(f.target, LatestOf(ss, f.n))
                /\ ~DateLT(LatestOf(ss, f.n), f.date)

\* a run that asked for one title at its latest amendment and for another
\* at the target date
C12_Witness ==
    /\ IsRun
    /\ \E i, j \in DOMAIN last.fetched :
          /\ last.fetched[i].date = LatestOf(ss, last.fetched[i].n)
          /\ last.fetched[i].date # last.fetched[i].target
          /\ last.fetched[j].date = last.fetched[j].target
          /\ last.fetched[j].date # LatestOf(ss, last.fetched[j].n)

----------------------------------------------------------------------------
(* The ownership index (checked under SpecIndex) *)

\* every agency of a forest, at any depth
RECURSIVE Everyone(_)
Everyone(agency_list) ==
    IF Len(agency_list) = 0 THEN {}
    ELSE {Head(agency_list)} \cup Everyone(Head(agency_list).children)
             \cup Everyone(Tail(agency_list))

\* the number of agencies of a forest, at any depth
RECURSIVE HowMany(_)
HowMany(agency_list) ==
    IF Len(agency_list) = 0 THEN 0
    ELSE 1 + HowMany(Head(agency_list).children) + HowMany(Tail(agency_list))

DistinctNames(agency_list) ==
    Cardinality(NamesIn(agency_list)) = HowMany(agency_list)

\* the titles an agency references itself
OwnRefs(agency) ==
    {IntVal(agency.cfr_references[i].title) : i \in DOMAIN agency.cfr_references}

\* C13: for a forest with pairwise distinct names, the mapping holds for
\* every agency at every depth exactly the titles the agency references
\* itself: an agency with references has its entry, and no entry holds a
\* descendant's references.
C13_MappingCoversEveryDepth ==
    (call.pc # "start" /\ DistinctNames(call.agencies)) =>
        \A x \in Everyone(call.agencies) :
            DictGet(call.agency_to_titles, x.name, {}) = OwnRefs(x)

\* the keys of agency_to_titles and of title_to_agencies
Owners == DOMAIN call.agency_to_titles.val
OwnedTitles == DOMAIN call.title_to_agencies

\* C14: title_to_agencies is the inverse of agency_to_titles: a is in
\* title_to_agencies[t] exactly when t is in agency_to_titles[a]; a name is
\* at most once in a title's list, every name in a list is a key of
\* agency_to_titles, and a title without owner is no key.
C14_ExactInverse ==
    (call.pc = "done") =>
        /\ \A t \in OwnedTitles :
              /\ Len(call.title_to_agencies[t]) > 0
              /\ Range(call.title_to_agencies[t]) \subseteq Owners
              /\ Cardinality(Range(call.title_to_agencies[t]))
                    = Len(call.title_to_agencies[t])
        /\ \A a \in Owners :
              \A t \in call.agency_to_titles.val[a] :
                  t \in OwnedTitles /\ a \in Range(call.title_to_agencies[t])
        /\ \A t \in OwnedTitles :
              \A a \in Range(call.title_to_agencies[t]) :
                  t \in call.agency_to_titles.val[a]

\* a forest whose index gives one title two owners and another title one
C14_Witness ==
    /\ call.pc = "done"
    /\ \E t, u \in OwnedTitles :
          /\ Len(call.title_to_agencies[t]) = 2
          /\ Len(call.title_to_agencies[u]) = 1

----------------------------------------------------------------------------
(* The composition of one agency (checked under Spec) *)

\* the numbers of the titles the index gives the selected agency
OwnedBySelected ==
    {r.v : r \in DictGet(create_agency_title_mapping(Get(ss.agencies)),
                         last.selected, {})}

\* C15: a composition run calls for the content only of titles the index
\* lists for the selected agency, whatever the cap on titles; it fetches,
\* counts and reports no title the agency does not own.
C15_CompositionOnlyOwnedTitles ==
    (last.kind = "composition" /\ ~last.from_cache) =>
        /\ Called(last) \subseteq OwnedBySelected
        /\ DOMAIN last.tables.title_word_counts.val \subseteq OwnedBySelected
        /\ DOMAIN last.tables.title_fetch_errors.val \subseteq OwnedBySelected

----------------------------------------------------------------------------
(* Failures of single titles (checked under Spec) *)

\* the numbers of the titles of a list that are not reserved, in order
Unreserved(titles) ==
    LET open == SelectSeq(titles, LAMBDA t : ~t.reserved)
    IN  [i \in DOMAIN open |-> open[i].number]

\* a sequence n times over
RECURSIVE Times(_, _)
Times(seq, n) == IF n = 0 THEN <<>> ELSE seq \o Times(seq, n - 1)

\* the titles a run has to call get_title_content for, in order: the capped
\* list (once, or once for each year), or the composition's selection
Due_titles(l, s) ==
    CASE l.kind = "snapshot" ->
             Unreserved(Capped(Get(s.titles_info), l.g.max_titles))
      [] l.kind = "series" ->
             Times(Unreserved(Capped(Get(s.titles_info), l.g.max_titles)),
                   l.years[2] - l.years[1] + 1)
      [] l.kind = "composition" ->
             LET open == SelectSeq(l.relevant,
                                   LAMBDA n : n \notin ReservedNums(s))
             IN  open

\* C16: no failure to obtain the content of one title ends a snapshot, a
\* time series or a composition: get_title_content is called for every
\* title of the processing list that is not reserved, in order, and the
\* titles whose content was obtained are in the results.
C16_FailuresDoNotAbort ==
    (IsRun /\ ~last.from_cache) =>
        /\ [i \in DOMAIN last.fetched |-> last.fetched[i].n] = Due_titles(last, ss)
        /\ \A i \in DOMAIN last.fetched :
              last.fetched[i].content =>
                  \E m \in WordMaps(last) : last.fetched[i].n \in DOMAIN m.val

\* a run in which one title failed after requests were made for it and a
\* later title was fetched and counted
C16_Witness ==
    /\ IsRun
    /\ \E i, j \in DOMAIN last.fetched :
          /\ i < j
          /\ ~last.fetched[i].content /\ last.fetched[i].requests > 0
          /\ last.fetched[j].content

----------------------------------------------------------------------------
(* The catalog lists of a snapshot (checked under Spec) *)

\* the run in l got no agencies or no titles: get_agencies and get_titles
\* return the empty list on any failure, and no catalog here is empty
ListFailed(l) == l.tables.agencies = <<>> \/ l.tables.titles_info = <<>>

\* C17: a snapshot whose agency list or title list could not be fetched has
\* failed: it fetches no title content, and it leaves the results of the
\* session and the stored results as they were.
C17_ListFailureFailsSnapshot ==
    [][(/\ last' # last /\ net' = net
        /\ last'.kind = "snapshot" /\ ~last'.from_cache
        /\ ListFailed(last'))
          => /\ last'.fetched = <<>>
             /\ ss'.shown = ss.shown
             /\ ss'.stored = ss.stored]_vars

----------------------------------------------------------------------------
(* The record of the titles that failed (checked under Spec) *)

\* the titles a run has on record as failed: the composition keeps
\* title_fetch_errors (lines 1113-1116); the loops of the snapshot (431-447)
\* and of the time series (279-287) write to no such record, and the
\* warnings of get_title_content are no part of what the run stores
LoggedTitles(l) ==
    IF l.kind = "composition" THEN DOMAIN l.tables.title_fetch_errors.val
    ELSE {}

\* C18: in every snapshot, time series and composition, each title whose
\* content could not be obtained is on the run's record of failed titles.
C18_FailedTitlesLogged ==
    (IsRun /\ ~last.from_cache) =>
        \A i \in DOMAIN last.fetched :
            ~last.fetched[i].content => last.fetched[i].n \in LoggedTitles(last)

----------------------------------------------------------------------------
(* The two maps of a composition (checked under Spec) *)

\* C19: in a composition every processed title that is not reserved is a
\* key of exactly one of title_word_counts (content obtained) and
\* title_fetch_errors (no content), and total_words is the sum of
\* title_word_counts alone.
C19_CountedOrLogged ==
    (last.kind = "composition" /\ ~last.from_cache) =>
        LET counted == DOMAIN last.tables.title_word_counts.val
            logged == DOMAIN last.tables.title_fetch_errors.val
        IN  /\ counted \cup logged =
                   {last.relevant[i] : i \in DOMAIN last.relevant} \ ReservedNums(ss)
            /\ counted \cap logged = {}
            /\ \A i \in DOMAIN last.fetched :
                  last.fetched[i].content <=> last.fetched[i].n \in counted
            /\ last.tables.total_words =
                   SetSum(counted, last.tables.title_word_counts.val)

\* a composition with a title in each map and a total that is not zero
C19_Witness ==
    /\ last.kind = "composition" /\ ~last.from_cache
    /\ DOMAIN last.tables.title_word_counts.val # {}
    /\ DOMAIN last.tables.title_fetch_errors.val # {}
    /\ last.tables.total_words > 0

----------------------------------------------------------------------------
(* The keys of the word-count map (checked under Spec) *)

\* the word-count maps a run filled, each with the date its titles were
\* asked for: the date of the sidebar, or the last day of a year
DatedMaps(l) ==
    IF l.kind = "series"
    THEN {[date |-> YearDate(y), map |-> l.counts[y]] : y \in DOMAIN l.counts}
    ELSE {[date |-> l.g.target_date, map |-> m] : m \in WordMaps(l)}

\* the titles for which get_title_content, asked for that date, gave content
\* in the run, and those for which it gave none
WithContent(l, date) ==
    {l.fetched[i].n : i \in {j \in DOMAIN l.fetched :
         l.fetched[j].target = date /\ l.fetched[j].content}}
WithoutContent(l, date) ==
    {l.fetched[i].n : i \in {j \in DOMAIN l.fetched :
         l.fetched[j].target = date /\ ~l.fetched[j].content}}

\* C20: a title is a key of the word-count map of a run only if its fetch
\* gave content in that run; a title whose fetch gave none is no key of the
\* map, with the count 0 or any other.
C20_KeysOnlyForContent ==
    (IsRun /\ ~last.from_cache) =>
        \A d \in DatedMaps(last) :
            /\ DOMAIN d.map.val \subseteq WithContent(last, d.date)
            /\ DOMAIN d.map.val \cap WithoutContent(last, d.date) = {}
            /\ Range(d.map.order) = DOMAIN d.map.val

\* a time series with a year in which one title came without content and
\* another was counted
C20_Witness ==
    /\ last.kind = "series" /\ ~last.from_cache
    /\ \E d \in DatedMaps(last) :
          /\ WithoutContent(last, d.date) # {}
          /\ DOMAIN d.map.val # {}

----------------------------------------------------------------------------
(* Titles without an owner (checked under Spec) *)

\* the counted titles no agency of the index refers to, and the others
Unowned(agencies, counts) ==
    {t \in DOMAIN counts.val : OwnerNames(agencies, t) = {}}
Owned(agencies, counts) ==
    {t \in DOMAIN counts.val : OwnerNames(agencies, t) # {}}

\* the totals over title_word_counts leave the unowned titles out: they sum
\* to the words of the owned titles, and an agency has a total only if it
\* owns a counted title
UnownedLeftOut(agencies, counts, totals) ==
    /\ SetSum(DOMAIN totals.val, totals.val)
          + Scale * SetSum(Unowned(agencies, counts), counts.val)
          = Scale * SetSum(DOMAIN counts.val, counts.val)
    /\ DOMAIN totals.val =
          UNION {OwnerNames(agencies, t) : t \in Owned(agencies, counts)}

\* C21: a counted title without an owning agency adds to no agency total and
\* makes no per-agency row, and it stays a key of the word-count map and a
\* row of the per-title table, where a title whose fetch failed is absent.
C21_UnownedTitleCountedNotAttributed ==
    /\ (last.kind = "snapshot" /\ ~last.from_cache) =>
          /\ UnownedLeftOut(last.tables.agencies, last.tables.title_word_counts,
                            last.tables.agency_word_counts)
          /\ DOMAIN last.tables.all_agencies_df
                = DOMAIN last.tables.agency_word_counts.val
          /\ Unowned(last.tables.agencies, last.tables.title_word_counts)
                \subseteq (DOMAIN last.tables.title_df
                             \cap WithContent(last, last.g.target_date))
    /\ (last.kind = "series" /\ ~last.from_cache) =>
          \A y \in DOMAIN last.counts :
              UnownedLeftOut(Get(ss.agencies), last.counts[y],
                             last.tables.word_counts_by_year[y])

\* a snapshot that counted words for a title without an owner, gave totals
\* to agencies for other titles, and has a failed title that is no key
C21_Witness ==
    /\ last.kind = "snapshot" /\ ~last.from_cache
    /\ \E t \in Unowned(last.tables.agencies, last.tables.title_word_counts) :
          last.tables.title_word_counts.val[t] > 0
    /\ DOMAIN last.tables.agency_word_counts.val # {}
    /\ WithoutContent(last, last.g.target_date) # {}

----------------------------------------------------------------------------
(* The years of a time series (checked under Spec) *)

\* the texts a run can have for a title at a date: the one the store answers
\* with and, with "Cache results" ticked, the one it answered with before
TextsOf(l, n, date) ==
    LET stores == IF l.g.cache_results THEN NetStates ELSE {l.net}
    IN  {a.payload : a \in {r \in UNION {Range(TitleAnswers(nt, n, date)) : nt \in stores} :
                                r.raises = "none" /\ r.status = 200}}

\* C22: calculate_word_counts_over_time returns one entry for each year from
\* start_year to end_year and for no other; the word-count map of a year
\* holds the titles that gave content when asked for with the target date
\* January 1 of that year, each with the words of the document of the date
\* asked for, and nothing of another year; the totals of the year are the
\* attribution of that map.
C22_EachYearFromScratch ==
    (last.kind = "series" /\ ~last.from_cache) =>
        /\ DOMAIN last.tables.word_counts_by_year = last.years[1]..last.years[2]
        /\ DOMAIN last.counts = last.years[1]..last.years[2]
        /\ \A y \in DOMAIN last.counts :
              /\ DOMAIN last.counts[y].val = WithContent(last, <<y, 1, 1>>)
              /\ \A n \in DOMAIN last.counts[y].val :
                    \E text \in TextsOf(last, n, Earlier(<<y, 1, 1>>, LatestOf(ss, n))) :
                        last.counts[y].val[n] = count_words_in_xml(text, build)
              /\ Attributed(Get(ss.agencies), last.counts[y],
                            last.tables.word_counts_by_year[y])

\* a time series over two years in which a title was counted in the first
\* year and gave no content in the second, where other titles were counted
C22_Witness ==
    /\ last.kind = "series" /\ ~last.from_cache
    /\ last.years = <<2024, 2025>>
    /\ DOMAIN last.counts[2025].val # {}
    /\ \E n \in DOMAIN last.counts[2024].val :
          n \notin DOMAIN last.counts[2025].val

----------------------------------------------------------------------------
(* The percentages of a composition (checked under Spec) *)

\* the sum of the Percentage column, in hundredths of a percent
PercentSum(df) == SetSum(DOMAIN df, [n \in DOMAIN df |-> df[n].percentage])

\* what rounding each row to two decimals can take from or add to the sum:
\* half a hundredth a row, here a whole one
PercentTolerance(df) == Cardinality(DOMAIN df)

\* C23: in a composition without fetch errors the percentages of the rows of
\* the table add up to 100, whatever the word counts of the rows, zero
\* included.
C23_PercentagesSumTo100 ==
    (/\ last.kind = "composition" /\ ~last.from_cache
     /\ DOMAIN last.tables.title_fetch_errors.val = {}
     /\ DOMAIN last.tables.composition_df # {})
        => /\ PercentSum(last.tables.composition_df)
                  >= 10000 - PercentTolerance(last.tables.composition_df)
           /\ PercentSum(last.tables.composition_df)
                  <= 10000 + PercentTolerance(last.tables.composition_df)

----------------------------------------------------------------------------
(* The pause between titles (checked under Spec) *)

\* the places of the requests of a run in its trace, in order
RequestPlaces(l) ==
    SelectSeq([i \in DOMAIN l.trace |-> i],
              LAMBDA i : l.trace[i].ev = "request")

\* how many requests of the run come before those of its k-th content
\* fetch: those for the two lists, in a snapshot, and those of the fetches
\* before it
RequestsBefore(l, k) ==
    (IF l.kind = "snapshot" THEN l.list_requests[1] + l.list_requests[2] ELSE 0)
        + SeqSum([m \in 1..(k - 1) |-> l.fetched[m].requests])

\* the place in the trace of the first and of the last request of the k-th
\* content fetch, which made at least one
FirstRequest(l, k) == RequestPlaces(l)[RequestsBefore(l, k) + 1]
LastRequest(l, k) == RequestPlaces(l)[RequestsBefore(l, k) + l.fetched[k].requests]

\* the pauses of throttle_delay in the trace after place i and before place j
PausesBetween(l, i, j) ==
    {p \in (i + 1)..(j - 1) :
        l.trace[p].ev = "sleep" /\ l.trace[p].dur = l.g.throttle_delay}

\* C24: in a snapshot, a time series and a composition, a content fetch that
\* made a request is followed by a pause of throttle_delay before the content
\* fetch of the next title begins, and the last one by a pause as well.
C24_PauseAfterAttemptedFetch ==
    (IsRun /\ ~last.from_cache) =>
        \A k \in DOMAIN last.fetched :
            last.fetched[k].requests > 0 =>
                /\ PausesBetween(last, LastRequest(last, k),
                                 Len(last.trace) + 1) # {}
                /\ \A j \in DOMAIN last.fetched :
                      (j > k /\ last.fetched[j].requests > 0) =>
                          Cardinality(PausesBetween(last, LastRequest(last, k),
                                                    FirstRequest(last, j)))
                              >= j - k

\* a run with two content fetches that made requests, the first of which
\* came back without content after a retry
C24_Witness ==
    /\ IsRun /\ ~last.from_cache
    /\ \E k, j \in DOMAIN last.fetched :
          /\ k < j
          /\ last.fetched[k].requests > 1 /\ ~last.fetched[k].content
          /\ last.fetched[j].requests > 0

----------------------------------------------------------------------------
(* The skip list against its announcement (checked under SpecFetch) *)

\* C25: with the skip option on, a call of get_title_content that finds
\* nothing stored for its key is skipped (returns None without a request)
\* exactly when its title is one of those the help text of the option names.
C25_SkipsWhatIsAnnounced ==
    (ContentCallDone /\ cfg.skip_problematic_titles /\ call.had = None) =>
        ((call.ret = None /\ Requests(call.trace) = 0)
            <=> call.n \in AnnouncedTitles)

----------------------------------------------------------------------------
(* The word counter (checked under SpecWords) *)

WordsCounted == call.fn = "count_words_in_xml" /\ call.pc = "done"

\* C26: count_words_in_xml returns 0 for None and for the empty string and
\* 2 for "<a>hello world</a>"; for "<a>hello" it takes the fallback (tags
\* replaced, word runs counted) and returns 2.
C26_WordCounterExamples ==
    WordsCounted =>
        /\ call.arg = None => call.ret = 0
        /\ call.arg = Some(<<>>) => call.ret = 0
        /\ call.arg = Some(HelloWorld) => call.ret = 2
        /\ call.arg = Some(HelloUnclosed) => (call.fallback /\ call.ret = 2)

----------------------------------------------------------------------------
(* What the content cache holds (checked under SpecFetch) *)

\* C27: the content cache takes an entry only from a request answered with
\* status 200, the text of that answer, under the key of that call; a call
\* that ends in a skip, a 404, exhausted retries or an error adds and changes
\* none, so that a call which finds nothing under its key and is not skipped
\* issues a request.
C27_CacheHoldsOnlyOkText ==
    [][/\ \A key \in DOMAIN ss'.content :
            \/ key \in DOMAIN ss.content /\ ss'.content[key] = ss.content[key]
            \/ /\ call'.fn = "get_title_content"
               /\ call'.answer = "200"
               /\ key = <<call'.n, call'.date>>
               /\ call'.ret = Some(ss'.content[key])
       /\ (/\ call'.fn = "get_title_content" /\ call'.pc = "done"
           /\ call'.had = None /\ ~Skipped(cfg', call'.n))
             => Requests(call'.trace) >= 1]_vars

\* a second call, with caching on, that made a request and failed: the cache
\* holds the text of the first call and nothing under the key of this one
C27_Witness ==
    /\ ContentCallDone
    /\ call.seq = 2
    /\ cfg.cache_results
    /\ call.answer \in {"404", "504", "Timeout", "Exception", "other"}
    /\ Requests(call.trace) >= 1
    /\ DOMAIN ss.content # {}
    /\ <<call.n, call.date>> \notin DOMAIN ss.content

----------------------------------------------------------------------------
(* The time series served from the session cache (checked under Spec) *)

\* C28: a time series served from the session cache has the rows of the
\* agencies selected in the request it is served to: the table is the one
\* the request would build from the cached word counts, never one built for
\* another selection.
C28_CachedSeriesIsForSelection ==
    (last.kind = "series" /\ last.from_cache)
        => last.tables.time_df
               = TimeRows(last.tables.word_counts_by_year, last.selected)

----------------------------------------------------------------------------
(* The agency list of the session after a failed fetch (checked under Spec) *)

\* the session holds the empty list a failed get_agencies returned
HoldsFailedList(s) == s.agencies = Some(<<>>)

\* C29: a failed fetch of the agency list does not stick: a script run that
\* starts with the empty list of a failed fetch in the session, and reaches
\* the first lines of the views, requests the agency list again.
C29_FailedListFetchedAgain ==
    [][(HoldsFailedList(ss) /\ last'.kind = "rerun")
           => last'.list_requests[1] >= 1]_vars

----------------------------------------------------------------------------
(* The agencies without parent of the hierarchy view (checked under SpecTree) *)

\* the agencies of a forest that are listed among the children of another
ChildrenOfSomeone(agency_list) ==
    UNION {Range(a.children) : a \in Everyone(agency_list)}

\* C30: the list of agencies without parent computed for the hierarchy view
\* holds exactly the agencies of the forest that are the child of no other
\* agency, whatever the depth of the trees.
C30_IndependentAreTheParentless ==
    (call.fn = "hierarchy" /\ call.pc = "done")
        => Range(call.independent_agencies)
               = Everyone(call.agencies) \ ChildrenOfSomeone(call.agencies)

====
